---- MODULE Spec2Model ----
(***************************************************************************)
(* Model of the job abstraction of cdpipelines (general.py, JobScript) and *)
(* of the composer rnaseq.pipeline.                                        *)
(*                                                                         *)
(* Text is modelled structurally.  A name (file name, directory name, job  *)
(* name) is a sequence of string tokens, a path is a sequence of names     *)
(* whose first name is ROOT when the path is absolute, and a line of a     *)
(* script is a record [kind, argv, nums]: argv is the sequence of words of *)
(* the line (each word a sequence of names), kind names the statement of   *)
(* the source that wrote the line.  None and the empty string are <<>>.    *)
(***************************************************************************)
EXTENDS Integers, Sequences, FiniteSets, TLC

VARIABLES
    job,              \* the JobScript objects constructed so far, in order
    files,            \* file system: resolved path -> sequence of lines
    dirs,             \* file system: set of existing directories
    ntmp,             \* number of scratch files handed out by tempfile
    last,             \* the last call: operation, job, result, exception
    staged,           \* per job: paths add_input_file returned with copying
    pc,               \* rnaseq.pipeline: not called yet, or ended by raising
    args,             \* rnaseq.pipeline: the arguments of the call
    runs              \* number of calls of rnaseq.pipeline so far

vars == <<job, files, dirs, ntmp, last, staged, pc, args, runs>>

jobVars == <<job, files, dirs, ntmp, last, staged>>
pipeVars == <<pc, args, runs>>

----------------------------------------------------------------------------
(* Bounds of the model.                                                    *)

MaxInputs == 1
\* inputs registered for one job where staging is followed on its own
MaxStaged == 2
MaxOutputs == 1
MaxTemps == 2
MaxEnds == 1
MaxLinks == 2
\* builder calls are followed while the scripts of the program hold fewer
\* builder lines than this
MaxCmds == 2

----------------------------------------------------------------------------
(* Names, words and paths.                                                 *)

None == <<>>
Tok(s) == <<s>>
ROOT == Tok("/")
W(s) == <<Tok(s)>>

\* '{}_{}'.format(sample_name, job_suffix)
JobName(sample, suffix) == <<sample, "_", suffix>>

\* '{}.sh'.format(name), '{}.out'.format(name), ...
WithExt(name, ext) == name \o <<ext>>

\* os.path.split(p): (head, tail)
Split(p) == IF Len(p) = 0 THEN <<None, None>>
            ELSE <<SubSeq(p, 1, Len(p) - 1), p[Len(p)]>>

\* os.path.join(d, name) for a relative name
Join(d, name) == Append(d, name)

\* The process's working directory and the one symbolic link of the
\* file system the model runs in: /lnk -> /data.
Cwd == <<ROOT, Tok("cwd")>>
SymLink == <<ROOT, Tok("lnk")>>
SymTarget == <<ROOT, Tok("data")>>

IsAbs(p) == Len(p) > 0 /\ p[1] = ROOT

\* os.path.realpath(p): make absolute, then resolve the symbolic link
Realpath(p) ==
    LET a == IF IsAbs(p) THEN p ELSE Cwd \o p
    IN  IF Len(a) >= Len(SymLink) /\ SubSeq(a, 1, Len(SymLink)) = SymLink
        THEN SymTarget \o SubSeq(a, Len(SymLink) + 1, Len(a))
        ELSE a

\* os.makedirs(d) inside _make_dir: d and its missing ancestors exist
\* afterwards; the OSError of an existing directory is swallowed.
MakeDir(ds, d) ==
    LET r == Realpath(d)
    IN  ds \cup {SubSeq(r, 1, k) : k \in 1..Len(r)}

Line(kind, argv, nums) == [kind |-> kind, argv |-> argv, nums |-> nums]

\* open(fn, "a") ... f.write(...): append lines, creating the file
Exists(fs, fn) == Realpath(fn) \in DOMAIN fs
Content(fs, fn) == IF Exists(fs, fn) THEN fs[Realpath(fn)] ELSE <<>>
AppendTo(fs, fn, lines) ==
    [p \in DOMAIN fs \cup {Realpath(fn)} |->
        IF p = Realpath(fn) THEN Content(fs, fn) \o lines ELSE fs[p]]
RemoveFile(fs, fn) == [p \in DOMAIN fs \ {Realpath(fn)} |-> fs[p]]

RECURSIVE Gcd(_, _)
Gcd(a, b) == IF b = 0 THEN a ELSE Gcd(b, a % b)
Abs(x) == IF x < 0 THEN -x ELSE x

\* Variant: the whole memory is requested for every thread.
FloatDiv_total(m, t) == <<m, 1>>

\* memory / float(threads), as a reduced fraction <<numerator, denominator>>
\* with a positive denominator
FloatDiv(m, t) ==
    LET g == Gcd(Abs(m), Abs(t))
        s == IF t < 0 THEN -1 ELSE 1
    IN  <<(s * m) \div g, (s * t) \div g>>

SeqToSet(s) == {s[i] : i \in 1..Len(s)}

RECURSIVE Filter(_, _)
\* [x for x in s if x not in excl]
Filter(s, excl) ==
    IF s = <<>> THEN <<>>
    ELSE IF Head(s) \in excl THEN Filter(Tail(s), excl)
         ELSE <<Head(s)>> \o Filter(Tail(s), excl)

\* Variant: the original input paths are listed instead of their copies.
MapTemp_originals(tempdir, s) == s

RECURSIVE MapTemp(_, _)
\* [os.path.join(tempdir, os.path.split(x)[1]) for x in s]
MapTemp(tempdir, s) ==
    IF s = <<>> THEN <<>>
    ELSE <<Join(tempdir, Split(Head(s))[2])>> \o MapTemp(tempdir, Tail(s))

----------------------------------------------------------------------------
(* Input domains.                                                          *)

Sample == "S"
ProjDir == <<ROOT, Tok("proj")>>
OutA == Join(ProjDir, Tok("alignment"))
ScratchRoot == <<ROOT, Tok("scratch")>>
LinkDir == <<ROOT, Tok("web")>>

IntVal(v) == [isint |-> TRUE, val |-> v]
NoWait == [none |-> TRUE, names |-> <<>>]
WaitFor(names) == [none |-> FALSE, names |-> names]

SuffixIn == {"alignment"}
OutdirIn == {OutA}
ThreadsIn == {IntVal(4)}
MemoryIn == {IntVal(8)}
LinkdirIn == {LinkDir}
TempdirIn == {None, ScratchRoot}
QueueIn == {None}
WaitIn == {NoWait, WaitFor(<<>>), WaitFor(<<JobName(Sample, "x")>>),
           WaitFor(<<JobName(Sample, "y"), JobName(Sample, "x")>>)}
CopyInputIn == BOOLEAN

\* The argument records of JobScript(...)
NewArgsIn ==
    [sample_name : {Sample}, job_suffix : SuffixIn, outdir : OutdirIn,
     threads : ThreadsIn, memory : MemoryIn, linkdir : LinkdirIn,
     tempdir : TempdirIn, queue : QueueIn, wait_for : WaitIn,
     copy_input : CopyInputIn]
CopyArgIn == {"True", "False", "None"}

\* A wider choice of constructor arguments: threads and memory that are
\* negative, zero or not of type int, queues inside and outside the list of
\* general.py:163, a link directory given or left at its default.
NotInt == [isint |-> FALSE, val |-> 0]
ThreadsWide == {IntVal(-1), IntVal(0), IntVal(1), IntVal(4), NotInt}
MemoryWide == {IntVal(-2), IntVal(0), IntVal(6), IntVal(8), NotInt}
QueueWide == {None, Tok("short"), Tok("long"), Tok("week")}
LinkdirWide == {None, LinkDir}
NewArgsWide ==
    [sample_name : {Sample}, job_suffix : SuffixIn, outdir : OutdirIn,
     threads : ThreadsWide, memory : MemoryWide, linkdir : LinkdirWide,
     tempdir : TempdirIn, queue : QueueWide, wait_for : {NoWait},
     copy_input : {FALSE}]

\* Paths handed to add_input_file: a file reached through the symbolic
\* link, a relative path, and a file that already lives in the output
\* directory.
InputFnIn == {<<ROOT, Tok("lnk"), Tok("r2.fq")>>,
              <<Tok("r3.fq")>>,
              Join(OutA, Tok("r1.fq"))}

\* Paths handed to add_temp_file and appended to the file-role lists.
TempFnIn(jb) == {Join(jb.tempdir, Tok("r1.fq")),
                 Join(jb.outdir, Tok("y.bam"))}

----------------------------------------------------------------------------
(* JobScript.                                                              *)

\* The record of a call: the arguments and the result are sequences of words;
\* for the constructor, init is the record of arguments it was called with.
NoInit ==
    [sample_name |-> "", job_suffix |-> "", outdir |-> None,
     threads |-> NotInt, memory |-> NotInt, linkdir |-> None,
     tempdir |-> None, queue |-> None, wait_for |-> NoWait,
     copy_input |-> FALSE]
NoCall ==
    [op |-> "none", j |-> 0, args |-> <<>>, ret |-> <<>>, exc |-> "none",
     init |-> NoInit]
Call(op, j, argv, ret, exc) ==
    [op |-> op, j |-> j, args |-> argv, ret |-> ret, exc |-> exc,
     init |-> NoInit]

\* tempfile.NamedTemporaryFile(delete=False).name: a fresh file in /tmp
TmpTok == <<"tmp1", "tmp2", "tmp3", "tmp4">>
ScratchName(n) == <<ROOT, Tok("tmp"), Tok(TmpTok[n])>>

\* general.py:149-150: the canonical script path of a job
ScriptPath(outdir, jobname) ==
    Join(Join(Split(outdir)[1], Tok("sh")), WithExt(jobname, ".sh"))

\* general.py:117-120
LogPath(outdir, jobname, ext) ==
    Join(Join(Split(outdir)[1], Tok("logs")), WithExt(jobname, ext))

\* Variant: the existing script is reused instead of a scratch file.
SetFilename_reuse(fs, outdir, jobname, n) ==
    <<ScriptPath(outdir, jobname), FALSE>>

\* JobScript._set_filename: <<filename, delete_sh>>
SetFilename(fs, outdir, jobname, n) ==
    IF Exists(fs, ScriptPath(outdir, jobname))
    THEN <<ScratchName(n + 1), TRUE>>
    ELSE <<ScriptPath(outdir, jobname), FALSE>>

\* JobScript._write_header, the lines up to the queue assertion
HeaderA == <<Line("shebang", <<W("#!/bin/bash")>>, <<>>)>>

\* ... the lines between the queue assertion and the division
HeaderB(jb) ==
    (IF jb.queue # None
     THEN <<Line("queue", <<W("#$"), W("-q"), <<jb.queue>>>>, <<>>)>>
     ELSE <<>>)
    \o <<Line("name", <<W("#$"), W("-N"), <<jb.jobname>>>>, <<>>)>>

\* ... and the remaining lines
HeaderC(jb) ==
    <<Line("h_vmem", <<W("#$"), W("-l"), W("h_vmem=")>>,
           FloatDiv(jb.memory.val, jb.threads.val)),
      Line("pe_smp", <<W("#$"), W("-pe"), W("smp")>>, <<jb.threads.val>>),
      Line("shell", <<W("#$"), W("-S"), W("/bin/bash")>>, <<>>),
      Line("stdout", <<W("#$"), W("-o"), jb.out>>, <<>>),
      Line("stderr", <<W("#$"), W("-e"), jb.err>>, <<>>),
      Line("git", <<W("#"), W("Git repository version:")>>, <<>>)>>
    \o (IF jb.tempdir # None
        THEN <<Line("mkdir", <<W("mkdir"), W("-p"), jb.tempdir>>, <<>>),
               Line("cd", <<W("cd"), jb.tempdir>>, <<>>)>>
        ELSE <<>>)

\* Variant: the temp directory is the tempdir root itself.
NewJob_shared_root(a) ==
    LET jobname == JobName(a.sample_name, a.job_suffix)
    IN  [sample_name |-> a.sample_name,
         job_suffix |-> a.job_suffix,
         jobname |-> jobname,
         outdir |-> a.outdir,
         tempdir |-> IF a.tempdir # None
                     THEN Realpath(a.tempdir)
                     ELSE a.outdir,
         threads |-> a.threads,
         memory |-> a.memory,
         linkdir |-> a.linkdir,
         queue |-> a.queue,
         out |-> LogPath(a.outdir, jobname, ".out"),
         err |-> LogPath(a.outdir, jobname, ".err"),
         wait_for |-> a.wait_for,
         copy_input |-> a.copy_input,
         input_files_to_copy |-> <<>>,
         output_files_to_copy |-> <<>>,
         temp_files_to_delete |-> <<>>,
         softlinks |-> <<>>,
         delete_sh |-> FALSE,
         filename |-> None,
         ends |-> 0]

\* The fields JobScript.__init__ sets (general.py:82-139), before
\* _set_filename fills in filename and delete_sh.
NewJob(a) ==
    LET jobname == JobName(a.sample_name, a.job_suffix)
    IN  [sample_name |-> a.sample_name,
         job_suffix |-> a.job_suffix,
         jobname |-> jobname,
         outdir |-> a.outdir,
         tempdir |-> IF a.tempdir # None
                     THEN Realpath(Join(a.tempdir, jobname))
                     ELSE a.outdir,
         threads |-> a.threads,
         memory |-> a.memory,
         linkdir |-> a.linkdir,
         queue |-> a.queue,
         out |-> LogPath(a.outdir, jobname, ".out"),
         err |-> LogPath(a.outdir, jobname, ".err"),
         wait_for |-> a.wait_for,
         copy_input |-> a.copy_input,
         input_files_to_copy |-> <<>>,
         output_files_to_copy |-> <<>>,
         temp_files_to_delete |-> <<>>,
         softlinks |-> <<>>,
         delete_sh |-> FALSE,
         filename |-> None,
         ends |-> 0]

\* JobScript.__init__ as a function of the state it reads and of the record
\* a of its arguments: the exception it ends with ("none" when the object is
\* returned), the object, and the file system it leaves behind.
Construct(fs, ds, n, a) ==
    LET jb0 == NewJob(a)
        parent == Split(a.outdir)[1]
        d1 == MakeDir(ds, a.outdir)
        d2 == MakeDir(MakeDir(d1, a.linkdir), Join(parent, Tok("logs")))
        d3 == MakeDir(d2, Join(parent, Tok("sh")))
        sf == SetFilename(fs, a.outdir, jb0.jobname, n)
        jb == [jb0 EXCEPT !.filename = sf[1], !.delete_sh = sf[2]]
        n1 == IF sf[2] THEN n + 1 ELSE n
        \* NamedTemporaryFile creates the scratch file, empty
        f0 == IF sf[2] THEN AppendTo(fs, sf[1], <<>>) ELSE fs
        fA == AppendTo(f0, jb.filename, HeaderA)
        fB == AppendTo(fA, jb.filename, HeaderB(jb))
        fC == AppendTo(fB, jb.filename, HeaderC(jb))
        res(exc, f, d, k) == [exc |-> exc, jb |-> jb, files |-> f,
                              dirs |-> d, ntmp |-> k]
    IN  IF ~a.threads.isint \/ ~a.memory.isint
        THEN res("AssertionError", fs, d1, n)
        ELSE IF a.linkdir = None
        THEN res("TypeError", fs, d1, n)
        ELSE IF a.queue # None /\ a.queue \notin {Tok("short"), Tok("long")}
        THEN res("AssertionError", fA, d3, n1)
        ELSE IF a.threads.val = 0
        THEN res("ZeroDivisionError", fB, d3, n1)
        ELSE res("none", fC, d3, n1)

\* JobScript.temp_file_path
temp_file_path(jb, fn) == Join(jb.tempdir, Split(fn)[2])

\* Variant: the job-wide copy_input option overrides an explicit copy=False.
add_input_file_default_wins(jb, fn, copy) ==
    LET reg == copy = "True" \/ jb.copy_input
    IN  <<reg, IF reg THEN temp_file_path(jb, fn) ELSE Realpath(fn)>>

\* JobScript.add_input_file: <<registered, returned path>>
add_input_file(jb, fn, copy) ==
    LET reg == copy = "True" \/ (copy = "None" /\ jb.copy_input)
    IN  <<reg, IF reg THEN temp_file_path(jb, fn) ELSE Realpath(fn)>>

\* The call registers fn for staging
Registers(jb, fn, copy) == add_input_file(jb, fn, copy)[1]

SameDir(jb) == Realpath(jb.tempdir) = Realpath(jb.outdir)

\* Variant: the copy is skipped when the job runs in its output directory.
copy_input_files_skip_same(jb) ==
    IF Len(jb.input_files_to_copy) > 0 /\ ~SameDir(jb)
    THEN <<Line("copy_input",
                <<W("rsync"), W("-avz")>> \o jb.input_files_to_copy
                    \o <<jb.tempdir>>, <<>>)>>
    ELSE <<>>

\* Variant: the inputs are copied to the output directory.
copy_input_files_to_outdir(jb) ==
    IF Len(jb.input_files_to_copy) > 0
    THEN <<Line("copy_input",
                <<W("rsync"), W("-avz")>> \o jb.input_files_to_copy
                    \o <<jb.outdir>>, <<>>)>>
    ELSE <<>>

\* JobScript.copy_input_files: the lines it writes
copy_input_files(jb) ==
    IF Len(jb.input_files_to_copy) > 0
    THEN <<Line("copy_input",
                <<W("rsync"), W("-avz")>> \o jb.input_files_to_copy
                    \o <<jb.tempdir>>, <<>>)>>
    ELSE <<>>

\* JobScript._copy_output_files: the lines it writes
copy_output_files(jb) ==
    IF Len(jb.output_files_to_copy) > 0 /\ ~SameDir(jb)
    THEN <<Line("copy_output",
                <<W("rsync"), W("-avz")>> \o jb.output_files_to_copy
                    \o <<jb.outdir>>, <<>>)>>
    ELSE <<>>

\* Variant: published outputs are not taken out of the deletion list.
delete_temp_list_unfiltered(jb) == jb.temp_files_to_delete

\* JobScript._delete_temp_files: the list it leaves in temp_files_to_delete
delete_temp_list(jb) ==
    IF Len(jb.temp_files_to_delete) > 0 /\ (SameDir(jb) \/ jb.tempdir = None)
    THEN Filter(jb.temp_files_to_delete, SeqToSet(jb.output_files_to_copy))
    ELSE jb.temp_files_to_delete

\* JobScript._delete_temp_files: the lines it writes
delete_temp_files(jb) ==
    IF Len(jb.temp_files_to_delete) > 0
    THEN <<Line("delete_temp",
                <<W("rm"), W("-r")>> \o delete_temp_list(jb), <<>>)>>
    ELSE <<>>

\* Variant: the temp directory is removed whether or not it is the output
\* directory.
delete_tempdir_always(jb) ==
    IF jb.tempdir # None
    THEN <<Line("delete_tempdir", <<W("rm"), W("-r"), jb.tempdir>>, <<>>)>>
    ELSE <<>>

\* JobScript._delete_tempdir: the lines it writes
delete_tempdir(jb) ==
    IF jb.tempdir # None /\ ~SameDir(jb)
    THEN <<Line("delete_tempdir", <<W("rm"), W("-r"), jb.tempdir>>, <<>>)>>
    ELSE <<>>

\* JobScript._make_softlinks: the first call of softlink() reads the global
\* name job, which the module never binds, and raises NameError before
\* anything is written.
make_softlinks_exc(jb) ==
    IF Len(jb.softlinks) > 0 THEN "NameError" ELSE "none"

\* Variant: the hold clause is never written.
sge_submit_command_nohold(jb) == <<W("qsub"), jb.filename>>

\* JobScript.sge_submit_command: the words of the command line
sge_submit_command(jb) ==
    IF ~jb.wait_for.none /\ Len(jb.wait_for.names) > 0
    THEN <<W("qsub"), W("-hold_jid"), jb.wait_for.names, jb.filename>>
    ELSE <<W("qsub"), jb.filename>>

----------------------------------------------------------------------------
(* The state before any job is constructed: an empty project, a project in *)
(* which an earlier run left the script of job S_alignment, or one where   *)
(* in addition the working directory holds a file named S_alignment.       *)

OldScript == <<Line("old", <<W("previous run")>>, <<>>)>>

InitFiles ==
    {<<>>,
     [p \in {ScriptPath(OutA, JobName(Sample, "alignment"))} |-> OldScript],
     [p \in {Join(Cwd, JobName(Sample, "alignment")),
             ScriptPath(OutA, JobName(Sample, "alignment"))} |-> OldScript]}

InitJobs ==
    /\ job = <<>>
    /\ files \in InitFiles
    /\ dirs = IF files = <<>> THEN {}
              ELSE MakeDir({}, Join(ProjDir, Tok("sh")))
    /\ ntmp = 0
    /\ last = NoCall
    /\ staged = <<>>

NoArgs == [webpath_file |-> None, outdir |-> None, linkdir |-> None,
           tempdir |-> None, queue |-> None, vcf |-> FALSE]

InitPipe ==
    /\ pc = "idle"
    /\ args = NoArgs
    /\ runs = 0

Init == InitJobs /\ InitPipe

\* job = JobScript(...); the specifications follow one job through its
\* life: the constructor is the first call and runs once, whether it returns
\* the object or raises
New(a) ==
    /\ job = <<>>
    /\ last = NoCall
    /\ LET r == Construct(files, dirs, ntmp, a)
       IN  /\ files' = r.files
           /\ dirs' = r.dirs
           /\ ntmp' = r.ntmp
           /\ job' = IF r.exc = "none" THEN Append(job, r.jb) ELSE job
           /\ staged' = IF r.exc = "none" THEN Append(staged, {}) ELSE staged
           /\ last' = [Call("new", IF r.exc = "none" THEN Len(job) + 1 ELSE 0,
                            <<>>, <<>>, r.exc) EXCEPT !.init = a]
    /\ UNCHANGED pipeVars

\* job.add_input_file(fn, copy)
AddInputFile(j, fn, copy) ==
    LET r == add_input_file(job[j], fn, copy)
    IN  /\ job' = IF r[1]
                  THEN [job EXCEPT ![j].input_files_to_copy = Append(@, fn)]
                  ELSE job
        /\ staged' = IF r[1] THEN [staged EXCEPT ![j] = @ \cup {r[2]}]
                     ELSE staged
        /\ last' = Call("add_input_file", j, <<fn, W(copy)>>, <<r[2]>>, "none")
        /\ UNCHANGED <<files, dirs, ntmp>>
        /\ UNCHANGED pipeVars

\* job.copy_input_files()
CopyInputFiles(j) ==
    /\ Len(job[j].temp_files_to_delete) + Len(job[j].input_files_to_copy)
         <= MaxTemps
    /\ files' = IF copy_input_files(job[j]) # <<>>
                THEN AppendTo(files, job[j].filename, copy_input_files(job[j]))
                ELSE files
    /\ job' = [job EXCEPT ![j].temp_files_to_delete =
                   @ \o MapTemp(job[j].tempdir, job[j].input_files_to_copy)]
    /\ last' = Call("copy_input_files", j, <<>>, <<>>, "none")
    /\ UNCHANGED <<dirs, ntmp, staged>>
    /\ UNCHANGED pipeVars

\* job.add_temp_file(fn, copy)
AddTempFile(j, fn, copy) ==
    /\ copy => Len(job[j].output_files_to_copy) < MaxOutputs
    /\ job' = IF copy
              THEN [job EXCEPT ![j].output_files_to_copy = Append(@, fn)]
              ELSE job
    /\ last' = Call("add_temp_file", j, <<fn>>,
                    <<temp_file_path(job[j], fn)>>, "none")
    /\ UNCHANGED <<files, dirs, ntmp, staged>>
    /\ UNCHANGED pipeVars

\* job.temp_files_to_delete.append(fn), as the callers of JobScript do
AppendTempFile(j, fn) ==
    /\ Len(job[j].temp_files_to_delete) < MaxTemps
    /\ job' = [job EXCEPT ![j].temp_files_to_delete = Append(@, fn)]
    /\ last' = Call("temp_files_to_delete.append", j, <<fn>>, <<>>, "none")
    /\ UNCHANGED <<files, dirs, ntmp, staged>>
    /\ UNCHANGED pipeVars

\* job.sge_submit_command()
SgeSubmitCommand(j) ==
    /\ last' = Call("sge_submit_command", j, <<>>,
                    sge_submit_command(job[j]), "none")
    /\ UNCHANGED <<job, files, dirs, ntmp, staged>>
    /\ UNCHANGED pipeVars

\* Variant: the temp directory is removed before the outputs are copied.
write_end_lines_rmdir_first(jb) ==
    delete_tempdir(jb) \o copy_output_files(jb) \o delete_temp_files(jb)

\* JobScript.write_end: the lines its first three steps write, in the order
\* of the calls
write_end_lines(jb) ==
    copy_output_files(jb) \o delete_temp_files(jb) \o delete_tempdir(jb)

\* JobScript.write_end as a function of the state it reads
write_end(fs, jb) ==
    LET lines == write_end_lines(jb)
        \* each helper opens the script for appending, _make_softlinks
        \* always, so the script exists afterwards even when nothing is
        \* written
        f1 == AppendTo(fs, jb.filename, lines)
        jb1 == [jb EXCEPT !.temp_files_to_delete = delete_temp_list(jb),
                          !.ends = @ + 1]
        rm == <<jb.jobname>>
    IN  IF make_softlinks_exc(jb) # "none"
        THEN [exc |-> make_softlinks_exc(jb), jb |-> jb1, files |-> f1]
        ELSE IF ~jb.delete_sh
        THEN [exc |-> "none", jb |-> jb1, files |-> f1]
        ELSE IF Exists(f1, rm)
        THEN [exc |-> "none", jb |-> jb1, files |-> RemoveFile(f1, rm)]
        ELSE [exc |-> "OSError", jb |-> jb1, files |-> f1]

\* job.write_end()
WriteEnd(j) ==
    /\ job[j].ends < MaxEnds
    /\ LET r == write_end(files, job[j])
       IN  /\ files' = r.files
           /\ job' = [job EXCEPT ![j] = r.jb]
           /\ last' = Call("write_end", j, <<>>, <<>>, r.exc)
    /\ UNCHANGED <<dirs, ntmp, staged>>
    /\ UNCHANGED pipeVars

NextJobs ==
    \/ \E a \in NewArgsIn : New(a)
    \/ \E j \in 1..Len(job), fn \in InputFnIn, copy \in CopyArgIn :
          /\ Registers(job[j], fn, copy) =>
                Len(job[j].input_files_to_copy) < MaxInputs
          /\ AddInputFile(j, fn, copy)
    \/ \E j \in 1..Len(job) : CopyInputFiles(j)
    \/ \E j \in 1..Len(job), copy \in BOOLEAN :
          \E fn \in TempFnIn(job[j]) : AddTempFile(j, fn, copy)
    \/ \E j \in 1..Len(job) : \E fn \in TempFnIn(job[j]) : AppendTempFile(j, fn)
    \/ \E j \in 1..Len(job) : SgeSubmitCommand(j)
    \/ \E j \in 1..Len(job) : WriteEnd(j)

Next == NextJobs

Spec == Init /\ [][Next]_vars

\* A job with several inputs to stage: it is constructed with or without a
\* tempdir root and with or without copy_input, inputs are declared, staged
\* and re-published, and the job is finalized.
StageArgsIn ==
    [sample_name : {Sample}, job_suffix : SuffixIn, outdir : OutdirIn,
     threads : ThreadsIn, memory : MemoryIn, linkdir : LinkdirIn,
     tempdir : TempdirIn, queue : QueueIn, wait_for : {NoWait},
     copy_input : CopyInputIn]

NextStage ==
    \/ \E a \in StageArgsIn : New(a)
    \/ \E j \in 1..Len(job), fn \in InputFnIn, copy \in CopyArgIn :
          /\ Registers(job[j], fn, copy) =>
                Len(job[j].input_files_to_copy) < MaxStaged
          /\ AddInputFile(j, fn, copy)
    \/ \E j \in 1..Len(job) : CopyInputFiles(j)
    \/ \E j \in 1..Len(job) :
          \E fn \in TempFnIn(job[j]) : AddTempFile(j, fn, TRUE)
    \/ \E j \in 1..Len(job) : WriteEnd(j)

SpecStage == Init /\ [][NextStage]_vars

\* The constructor alone, over the wider choice of arguments.
NextNew == \E a \in NewArgsWide : New(a)

SpecNew == Init /\ [][NextNew]_vars

----------------------------------------------------------------------------
(* Softlinks.                                                              *)

\* sample_name in os.path.split(fn)[1], on names made of tokens
InName(sample, name) == sample \in SeqToSet(name)

\* _make_softlink of the older package: the name of the link for file fn
make_softlink_name(fn, sample_name) ==
    IF ~InName(sample_name, Split(fn)[2])
    THEN <<sample_name, "_">> \o Split(fn)[2]
    ELSE Split(fn)[2]

\* JobScript.add_softlink.  When the sample name is not in the base name of
\* target, the format call reads the name sample_name, otherwise the split
\* reads the name fn; neither is a parameter, a local or a global of the
\* module, so both branches raise NameError before the append.  link_name
\* is read by no statement.
add_softlink(jb, target, link_name) ==
    IF ~InName(jb.sample_name, Split(target)[2])
    THEN [exc |-> "NameError", softlinks |-> jb.softlinks, ret |-> <<>>]
    ELSE [exc |-> "NameError", softlinks |-> jb.softlinks, ret |-> <<>>]

\* Arguments of add_softlink: a target whose base name holds the sample
\* name and one whose base name does not, and the path in the temp directory
\* that picard_mark_duplicates returns; no link name, or one.
SoftTargetIn(jb) == {Join(jb.outdir, <<Sample, "_", "x.bam">>),
                     Join(jb.outdir, Tok("y.bam")),
                     Join(jb.tempdir, <<Sample, "_", "sorted_mdup.bam">>)}
LinkNameIn == {None, Join(LinkDir, Tok("z.bam"))}
LinkIn == {Join(LinkDir, Tok("z.bam")), Join(LinkDir, <<Sample, "_", "y.bam">>)}

\* The constructor arguments of the jobs whose softlinks are followed
LinkArgsIn ==
    [sample_name : {Sample}, job_suffix : SuffixIn, outdir : OutdirIn,
     threads : ThreadsIn, memory : MemoryIn, linkdir : LinkdirIn,
     tempdir : TempdirIn, queue : QueueIn, wait_for : {NoWait},
     copy_input : {FALSE}]

\* job.add_softlink(target, link_name)
AddSoftlink(j, target, link_name) ==
    LET r == add_softlink(job[j], target, link_name)
    IN  /\ job' = [job EXCEPT ![j].softlinks = r.softlinks]
        /\ last' = Call("add_softlink", j, <<target, link_name>>, r.ret, r.exc)
        /\ UNCHANGED <<files, dirs, ntmp, staged>>
        /\ UNCHANGED pipeVars

\* job.softlinks.append([target, link]): the statement add_softlink ends
\* with and never reaches, run by the caller on the list of the job
AppendSoftlink(j, target, link) ==
    /\ Len(job[j].softlinks) < MaxLinks
    /\ job' = [job EXCEPT ![j].softlinks = Append(@, <<target, link>>)]
    /\ last' = Call("softlinks.append", j, <<target, link>>, <<>>, "none")
    /\ UNCHANGED <<files, dirs, ntmp, staged>>
    /\ UNCHANGED pipeVars

NextLinks ==
    \/ \E a \in LinkArgsIn : New(a)
    \/ \E j \in 1..Len(job), ln \in LinkNameIn :
          \E t \in SoftTargetIn(job[j]) : AddSoftlink(j, t, ln)
    \/ \E j \in 1..Len(job), ln \in LinkIn :
          \E t \in SoftTargetIn(job[j]) : AppendSoftlink(j, t, ln)
    \/ \E j \in 1..Len(job) :
          \E fn \in TempFnIn(job[j]) : AddTempFile(j, fn, TRUE)
    \/ \E j \in 1..Len(job) : WriteEnd(j)

SpecLinks == Init /\ [][NextLinks]_vars

----------------------------------------------------------------------------
(* rnaseq.pipeline.                                                        *)
(*                                                                         *)
(* The function is written as a straight line of job blocks, each of the   *)
(* shape                                                                   *)
(*     job = JobScript(...); declarations and commands; job.write_end();   *)
(*     submit_commands.append(<submit command of job>)                     *)
(* followed by the block that writes the submission script.  The module    *)
(* does not compile: the constructor calls of blocks 4 and 10 write a      *)
(* positional argument after keyword arguments.  import rnaseq raises      *)
(* SyntaxError, so a program that calls rnaseq.pipeline ends at the import *)
(* and no statement of the function runs.                                  *)

\* submit_fn = os.path.join(outdir, 'sh', 'submit.sh')
SubmitFn(outdir) == Join(Join(outdir, Tok("sh")), Tok("submit.sh"))

\* import rnaseq: what compiling the module raises
import_rnaseq == "SyntaxError"

ArgsIn ==
    [webpath_file : {None, <<ROOT, Tok("webpath.txt")>>},
     outdir : {ProjDir}, linkdir : {None, LinkDir}, tempdir : TempdirIn,
     queue : QueueWide, vcf : BOOLEAN]

\* import rnaseq; rnaseq.pipeline(...) with the arguments a: the import
\* raises, the function is not entered and nothing is created
pipeline(fs, ds, a) ==
    [exc |-> import_rnaseq, files |-> fs, dirs |-> ds]

\* A program calls rnaseq.pipeline
PipeStart ==
    /\ pc = "idle"
    /\ runs = 0
    /\ \E a \in ArgsIn :
          LET r == pipeline(files, dirs, a)
          IN  /\ args' = a
              /\ files' = r.files
              /\ dirs' = r.dirs
              /\ last' = Call("pipeline", 0, <<>>, <<>>, r.exc)
    /\ pc' = "raised"
    /\ runs' = 1
    /\ UNCHANGED <<job, ntmp, staged>>

NextPipe == PipeStart

SpecPipe == Init /\ [][NextPipe]_vars

\* The program calls rnaseq.pipeline a second time with the arguments of the
\* first call, on the files and directories that call left
PipeRerun ==
    /\ pc = "raised"
    /\ runs = 1
    /\ LET r == pipeline(files, dirs, args)
       IN  /\ files' = r.files
           /\ dirs' = r.dirs
           /\ last' = Call("pipeline", 0, <<>>, <<>>, r.exc)
    /\ runs' = 2
    /\ UNCHANGED <<job, ntmp, staged, pc, args>>

NextRerun ==
    \/ NextPipe
    \/ PipeRerun

SpecRerun == Init /\ [][NextRerun]_vars

-----------------------------------------------------------------------------
(* Command builders called on one of two jobs.  The builders of           *)
(* general.py:334-929 append to self.filename.  softlink, make_md5sum and  *)
(* the builders of general.py:931-1490 open job.filename or read           *)
(* job.tempdir: the name job is looked up in the globals of the module     *)
(* when the method runs, and nothing in the repository binds it there, so  *)
(* these calls raise before they write.                                    *)

\* The suffixes of the two jobs, in the order of their construction
BuildSuffix == <<"alignment", "md5">>

\* The jobs whose builders are called are given a tempdir root
BuildArgsIn ==
    [sample_name : {Sample}, job_suffix : SeqToSet(BuildSuffix),
     outdir : OutdirIn, threads : ThreadsIn, memory : MemoryIn,
     linkdir : LinkdirIn, tempdir : {ScratchRoot}, queue : QueueIn,
     wait_for : {NoWait}, copy_input : {FALSE}]

\* job = JobScript(...) for the next of the two jobs
NewBuild(a) ==
    /\ Len(job) < Len(BuildSuffix)
    /\ a.job_suffix = BuildSuffix[Len(job) + 1]
    /\ LET r == Construct(files, dirs, ntmp, a)
       IN  /\ r.exc = "none"
           /\ files' = r.files
           /\ dirs' = r.dirs
           /\ ntmp' = r.ntmp
           /\ job' = Append(job, r.jb)
           /\ staged' = Append(staged, {})
           /\ last' = [Call("new", Len(job) + 1, <<>>, <<>>, "none")
                          EXCEPT !.init = a]
    /\ UNCHANGED pipeVars

\* The constructor arguments of two jobs of one program: the output
\* directories of two job blocks, a queue, the second job told or not told to
\* wait for the first
PairArgsIn ==
    [sample_name : {Sample}, job_suffix : SeqToSet(BuildSuffix),
     outdir : {OutA, Join(ProjDir, Tok("qc"))}, threads : ThreadsIn,
     memory : MemoryIn, linkdir : LinkdirIn, tempdir : TempdirIn,
     queue : {None, Tok("short"), Tok("long")},
     wait_for : {NoWait, WaitFor(<<JobName(Sample, BuildSuffix[1])>>)},
     copy_input : BOOLEAN]

\* Two jobs are constructed one after the other and nothing else is called.
NextPair == \E a \in PairArgsIn : NewBuild(a)

SpecPair == Init /\ [][NextPair]_vars

\* 'KEY={}'.format(p): one word of the command line
KeyVal(key, p) == <<Tok(key)>> \o p

\* ' &' at the end of a line built with bg=True
Bg(bg) == IF bg THEN <<W("&")>> ELSE <<>>

\* str(True), str(False)
Py(b) == W(IF b THEN "True" ELSE "False")

\* The defaults of picard_path, picard_memory and picard_tempdir
PicardPath == W("$picard")
PicardMemory == 2
PicardTempdir == W(".")

\* 'java -Xmx{}g -jar', '-XX:ParallelGCThreads=1', '-Djava.io.tmpdir={}',
\* '-jar {} <tool>': the words every picard line starts with; the memory is
\* the number of the line
Java(tool) ==
    <<W("java"), W("-Xmx{}g"), W("-jar"), W("-XX:ParallelGCThreads=1"),
      KeyVal("-Djava.io.tmpdir=", PicardTempdir), W("-jar"), PicardPath,
      W(tool)>>

\* os.path.join(d, '{}<rest>'.format(sample_name))
SampleFile(d, sample_name, rest) == Join(d, <<sample_name, rest>>)

\* JobScript.picard_collect_rna_seq_metrics: the line it builds and the
\* tuple it returns
picard_collect_rna_seq_metrics(jb, in_bam, ref_flat, rrna_intervals, strand_specific, bg) ==
    LET metrics == SampleFile(jb.tempdir, jb.sample_name,
                              "_rna_seq_metrics.txt")
        chart == SampleFile(jb.tempdir, jb.sample_name, "_5_3_coverage.pdf")
        ss == IF strand_specific
              THEN "STRAND_SPECIFICITY=SECOND_READ_TRANSCRIPTION_STRAND"
              ELSE "STRAND_SPECIFICITY=NONE"
    IN  [line |-> Line("picard_collect_rna_seq_metrics",
                       Java("CollectRnaSeqMetrics")
                         \o <<KeyVal("I=", in_bam),
                              KeyVal("REF_FLAT=", ref_flat),
                              W(ss),
                              KeyVal("RIBOSOMAL_INTERVALS=", rrna_intervals),
                              W("ASSUME_SORTED=TRUE"),
                              KeyVal("CHART_OUTPUT=", chart),
                              KeyVal("O=", metrics)>>
                         \o Bg(bg),
                       <<PicardMemory>>),
         ret |-> <<metrics, chart>>]

\* The extensions of the files CollectMultipleMetrics writes
MultipleMetricsExt ==
    <<"alignment_summary_metrics", "quality_by_cycle.pdf",
      "base_distribution_by_cycle.pdf", "quality_by_cycle_metrics",
      "base_distribution_by_cycle_metrics", "quality_distribution.pdf",
      "insert_size_histogram.pdf", "quality_distribution_metrics",
      "insert_size_metrics">>

\* JobScript.picard_collect_multiple_metrics: O= is the sample name, the
\* prefix of the files written
picard_collect_multiple_metrics(jb, in_bam, bg) ==
    [line |-> Line("picard_collect_multiple_metrics",
                   Java("CollectMultipleMetrics")
                     \o <<W("VALIDATION_STRINGENCY=SILENT"),
                          W("ASSUME_SORTED=TRUE"),
                          KeyVal("I=", in_bam),
                          KeyVal("O=", <<Tok(jb.sample_name)>>)>>
                     \o Bg(bg),
                   <<PicardMemory>>),
     ret |-> [i \in 1..Len(MultipleMetricsExt) |->
                 Join(jb.tempdir,
                      <<jb.sample_name, ".", MultipleMetricsExt[i]>>)]]

\* JobScript.picard_merge: one I= word for each bam, in the order given
picard_merge(bams, out_bam, bg) ==
    [line |-> Line("picard_merge",
                   Java("MergeSamFiles")
                     \o <<W("ASSUME_SORTED=TRUE"), W("USE_THREADING=TRUE")>>
                     \o [i \in 1..Len(bams) |-> KeyVal("I=", bams[i])]
                     \o <<KeyVal("O=", out_bam)>>
                     \o Bg(bg),
                   <<PicardMemory>>),
     ret |-> <<out_bam>>]

\* JobScript.picard_gc_bias_metrics
picard_gc_bias_metrics(jb, in_bam, bg) ==
    LET metrics == SampleFile(jb.tempdir, jb.sample_name,
                              "_gc_bias_metrics.txt")
        chart == SampleFile(jb.tempdir, jb.sample_name, "_gc_bias.pdf")
        out == SampleFile(jb.tempdir, jb.sample_name,
                          "_gc_bias_metrics_out.txt")
    IN  [line |-> Line("picard_gc_bias_metrics",
                       Java("CollectGcBiasMetrics")
                         \o <<W("VALIDATION_STRINGENCY=SILENT"),
                              KeyVal("I=", in_bam),
                              KeyVal("O=", out),
                              KeyVal("CHART_OUTPUT=", chart),
                              KeyVal("SUMMARY_OUTPUT=", metrics),
                              W("ASSUME_SORTED=TRUE")>>
                         \o Bg(bg),
                       <<PicardMemory>>),
         ret |-> <<metrics, chart, out>>]

\* JobScript.picard_bam_index_stats: the two outputs are redirections into
\* the output directory
picard_bam_index_stats(jb, in_bam, bg) ==
    LET out == SampleFile(jb.outdir, jb.sample_name, "_index_stats.txt")
        err == SampleFile(jb.outdir, jb.sample_name, "_index_stats.err")
    IN  [line |-> Line("picard_bam_index_stats",
                       Java("BamIndexStats")
                         \o <<W("VALIDATION_STRINGENCY=SILENT"),
                              KeyVal("I=", in_bam),
                              W(">"), out, W("2>"), err>>
                         \o Bg(bg),
                       <<PicardMemory>>),
         ret |-> <<out, err>>]

\* JobScript.picard_insert_size_metrics
picard_insert_size_metrics(jb, in_bam, bg) ==
    LET metrics == SampleFile(jb.tempdir, jb.sample_name,
                              "_insert_size_metrics.txt")
        hist == SampleFile(jb.tempdir, jb.sample_name, "_insert_size.pdf")
    IN  [line |-> Line("picard_insert_size_metrics",
                       Java("CollectInsertSizeMetrics")
                         \o <<W("VALIDATION_STRINGENCY=SILENT"),
                              KeyVal("I=", in_bam),
                              KeyVal("O=", metrics),
                              KeyVal("HISTOGRAM_FILE=", hist),
                              W("ASSUME_SORTED=TRUE")>>
                         \o Bg(bg),
                       <<PicardMemory>>),
         ret |-> <<metrics, hist>>]

\* The kinds of the lines the builders write
BuilderKinds ==
    {"picard_collect_rna_seq_metrics", "picard_collect_multiple_metrics",
     "picard_merge", "picard_gc_bias_metrics", "picard_bam_index_stats",
     "picard_insert_size_metrics"}

BuilderLines(fs, fn) ==
    Cardinality({i \in 1..Len(Content(fs, fn)) :
                    Content(fs, fn)[i].kind \in BuilderKinds})

RECURSIVE BuilderTotal(_, _)
\* The builder lines in the scripts of the first n jobs
BuilderTotal(fs, n) ==
    IF n = 0 THEN 0
    ELSE BuilderLines(fs, job[n].filename) + BuilderTotal(fs, n - 1)

\* Variant: the line goes to the script of the job constructed first.
Emit_first_job(op, j, argv, ret, line) ==
    /\ BuilderTotal(files, Len(job)) < MaxCmds
    /\ files' = AppendTo(files, job[1].filename, <<line>>)
    /\ last' = Call(op, j, argv, ret, "none")
    /\ UNCHANGED <<job, dirs, ntmp, staged>>
    /\ UNCHANGED pipeVars

\* with open(self.filename, "a") as f: f.write(lines); return ...
Emit(op, j, argv, ret, line) ==
    /\ BuilderTotal(files, Len(job)) < MaxCmds
    /\ files' = AppendTo(files, job[j].filename, <<line>>)
    /\ last' = Call(op, j, argv, ret, "none")
    /\ UNCHANGED <<job, dirs, ntmp, staged>>
    /\ UNCHANGED pipeVars

\* A builder that raises before its write: the script, which the constructor
\* created, and the job are as they were
Raise(op, j, argv, exc) ==
    /\ BuilderTotal(files, Len(job)) < MaxCmds
    /\ last' = Call(op, j, argv, <<>>, exc)
    /\ UNCHANGED <<job, files, dirs, ntmp, staged>>
    /\ UNCHANGED pipeVars

\* The files the builders are called with
RefFlat == <<ROOT, Tok("ref"), Tok("refFlat.txt")>>
RrnaIntervals == <<ROOT, Tok("ref"), Tok("rrna.interval_list")>>
BamsIn == <<<<ROOT, Tok("bam"), Tok("b.bam")>>,
            <<ROOT, Tok("bam"), Tok("a.bam")>>>>
VcfIn == <<ROOT, Tok("ref"), Tok("snps.vcf")>>
BedIn == <<ROOT, Tok("ref"), Tok("genes.bed")>>
FastaIn == <<ROOT, Tok("ref"), Tok("hg19.fa")>>
ScriptIn == <<ROOT, Tok("wasp"), Tok("script.py")>>
FastqsIn == <<<<ROOT, Tok("fq"), Tok("b_R1.fastq.gz")>>,
              <<ROOT, Tok("fq"), Tok("a_R1.fastq.gz")>>>>

\* The bam the caller has picard_merge write and hands to the builders that
\* read a bam
MergedBam(jb) == Join(jb.tempdir, Tok("merged.bam"))

\* job[j].picard_collect_rna_seq_metrics(in_bam, ref_flat, rrna_intervals,
\*                                       strand_specific=..., bg=...)
PicardCollectRnaSeqMetrics(j, in_bam, strand_specific, bg) ==
    LET r == picard_collect_rna_seq_metrics(job[j], in_bam, RefFlat,
                                            RrnaIntervals, strand_specific,
                                            bg)
    IN  Emit("picard_collect_rna_seq_metrics", j,
             <<in_bam, RefFlat, RrnaIntervals, Py(strand_specific), Py(bg)>>,
             r.ret, r.line)

\* job[j].picard_collect_multiple_metrics(in_bam, bg=...)
PicardCollectMultipleMetrics(j, in_bam, bg) ==
    LET r == picard_collect_multiple_metrics(job[j], in_bam, bg)
    IN  Emit("picard_collect_multiple_metrics", j, <<in_bam, Py(bg)>>,
             r.ret, r.line)

\* job[j].picard_index(in_bam, bg=...): the line is built under the name
\* line and the name lines is written, which is not bound
PicardIndex(j, in_bam, bg) ==
    Raise("picard_index", j, <<in_bam, Py(bg)>>, "NameError")

\* job[j].picard_merge(bams, out_bam, bg=...)
PicardMerge(j, bams, out_bam, bg) ==
    LET r == picard_merge(bams, out_bam, bg)
    IN  Emit("picard_merge", j, bams \o <<out_bam, Py(bg)>>, r.ret, r.line)

\* job[j].samtools_index(in_bam, bg=...): as picard_index, the name lines is
\* not bound
SamtoolsIndex(j, in_bam, bg) ==
    Raise("samtools_index", j, <<in_bam, Py(bg)>>, "NameError")

\* job[j].picard_mark_duplicates(in_bam): the line is formatted with the
\* name out_bam, which is not bound
PicardMarkDuplicates(j, in_bam) ==
    Raise("picard_mark_duplicates", j, <<in_bam>>, "NameError")

\* job[j].picard_gc_bias_metrics(in_bam, bg=...)
PicardGcBiasMetrics(j, in_bam, bg) ==
    LET r == picard_gc_bias_metrics(job[j], in_bam, bg)
    IN  Emit("picard_gc_bias_metrics", j, <<in_bam, Py(bg)>>, r.ret, r.line)

\* job[j].picard_bam_index_stats(in_bam, bg=...)
PicardBamIndexStats(j, in_bam, bg) ==
    LET r == picard_bam_index_stats(job[j], in_bam, bg)
    IN  Emit("picard_bam_index_stats", j, <<in_bam, Py(bg)>>, r.ret, r.line)

\* job[j].picard_insert_size_metrics(in_bam, bg=...)
PicardInsertSizeMetrics(j, in_bam, bg) ==
    LET r == picard_insert_size_metrics(job[j], in_bam, bg)
    IN  Emit("picard_insert_size_metrics", j, <<in_bam, Py(bg)>>,
             r.ret, r.line)

\* job[j].picard_query_sort(in_bam): the method has no parameter self and
\* its body reads self.tempdir
PicardQuerySort(j, in_bam) ==
    Raise("picard_query_sort", j, <<in_bam>>, "NameError")

\* job[j].picard_coord_sort(in_bam)
PicardCoordSort(j, in_bam) ==
    Raise("picard_coord_sort", j, <<in_bam>>, "NameError")

\* job[j].cutadapt_trim(fastq, length, out)
CutadaptTrim(j, fastq, out) ==
    Raise("cutadapt_trim", j, <<fastq, out>>, "NameError")

\* job[j].bedgraph_to_bigwig(bedgraph)
BedgraphToBigwig(j, bedgraph) ==
    Raise("bedgraph_to_bigwig", j, <<bedgraph>>, "NameError")

\* job[j].flagstat(bam, bg=...)
Flagstat(j, bam, bg) ==
    Raise("flagstat", j, <<bam, Py(bg)>>, "NameError")

\* job[j].combine_fastqs(fastqs, out_fastq, bg=...)
CombineFastqs(j, fastqs, out_fastq, bg) ==
    Raise("combine_fastqs", j, fastqs \o <<out_fastq, Py(bg)>>, "NameError")

\* job[j].fastqc(fastqs, outdir): raises at the write, before the links of
\* the reports are registered
Fastqc(j, fastqs, outdir) ==
    Raise("fastqc", j, fastqs \o <<outdir>>, "NameError")

\* job[j].wasp_allele_swap(bam, find_intersecting_snps_path, vcf, bed): with
\* no vcf_sample_name the name sample_name is read, which is not bound
WaspAlleleSwap(j, bam, vcf, bed) ==
    Raise("wasp_allele_swap", j, <<bam, ScriptIn, vcf, bed>>, "NameError")

\* job[j].wasp_alignment_compare(to_remap_bam, to_remap_num, remapped_bam,
\*                               filter_remapped_reads_path)
WaspAlignmentCompare(j, to_remap_bam, to_remap_num, remapped_bam) ==
    Raise("wasp_alignment_compare", j,
          <<to_remap_bam, to_remap_num, remapped_bam, ScriptIn>>,
          "NameError")

\* job[j].count_allele_coverage(bam, vcf, fasta)
CountAlleleCoverage(j, bam, vcf, fasta) ==
    Raise("count_allele_coverage", j, <<bam, vcf, fasta>>, "NameError")

\* job[j].mbased(allele_counts, feature_bed): "from __init__ import
\* _scripts" finds no module of that name
Mbased(j, allele_counts, feature_bed) ==
    Raise("mbased", j, <<allele_counts, feature_bed>>, "ModuleNotFoundError")

\* job[j].softlink(target, link)
Softlink(j, target, link) ==
    Raise("softlink", j, <<target, link>>, "NameError")

\* job[j].make_md5sum(fn)
MakeMd5sum(j, fn) ==
    Raise("make_md5sum", j, <<fn>>, "NameError")

NextBuild ==
    \/ \E a \in BuildArgsIn : NewBuild(a)
    \/ \E j \in 1..Len(job), strand_specific \in BOOLEAN, bg \in BOOLEAN :
          PicardCollectRnaSeqMetrics(j, MergedBam(job[j]), strand_specific,
                                     bg)
    \/ \E j \in 1..Len(job), bg \in BOOLEAN :
          PicardCollectMultipleMetrics(j, MergedBam(job[j]), bg)
    \/ \E j \in 1..Len(job), bg \in BOOLEAN :
          PicardIndex(j, MergedBam(job[j]), bg)
    \/ \E j \in 1..Len(job), bg \in BOOLEAN :
          PicardMerge(j, BamsIn, MergedBam(job[j]), bg)
    \/ \E j \in 1..Len(job), bg \in BOOLEAN :
          SamtoolsIndex(j, MergedBam(job[j]), bg)
    \/ \E j \in 1..Len(job) : PicardMarkDuplicates(j, MergedBam(job[j]))
    \/ \E j \in 1..Len(job), bg \in BOOLEAN :
          PicardGcBiasMetrics(j, MergedBam(job[j]), bg)
    \/ \E j \in 1..Len(job), bg \in BOOLEAN :
          PicardBamIndexStats(j, MergedBam(job[j]), bg)
    \/ \E j \in 1..Len(job), bg \in BOOLEAN :
          PicardInsertSizeMetrics(j, MergedBam(job[j]), bg)
    \/ \E j \in 1..Len(job) : PicardQuerySort(j, MergedBam(job[j]))
    \/ \E j \in 1..Len(job) : PicardCoordSort(j, MergedBam(job[j]))
    \/ \E j \in 1..Len(job) :
          CutadaptTrim(j, FastqsIn[1], Join(job[j].tempdir, Tok("t.fastq")))
    \/ \E j \in 1..Len(job) :
          BedgraphToBigwig(j, Join(job[j].tempdir, Tok("S.bg")))
    \/ \E j \in 1..Len(job), bg \in BOOLEAN :
          Flagstat(j, MergedBam(job[j]), bg)
    \/ \E j \in 1..Len(job), bg \in BOOLEAN :
          CombineFastqs(j, FastqsIn,
                        Join(job[j].tempdir, Tok("combined_R1.fastq.gz")), bg)
    \/ \E j \in 1..Len(job) : Fastqc(j, FastqsIn, job[j].outdir)
    \/ \E j \in 1..Len(job) :
          WaspAlleleSwap(j, MergedBam(job[j]), VcfIn, BedIn)
    \/ \E j \in 1..Len(job) :
          WaspAlignmentCompare(j, Join(job[j].tempdir, Tok("to.remap.bam")),
                               Join(job[j].tempdir, Tok("to.remap.num.gz")),
                               MergedBam(job[j]))
    \/ \E j \in 1..Len(job) :
          CountAlleleCoverage(j, MergedBam(job[j]), VcfIn, FastaIn)
    \/ \E j \in 1..Len(job) :
          Mbased(j, Join(job[j].tempdir, Tok("counts.tsv")), BedIn)
    \/ \E j \in 1..Len(job) :
          Softlink(j, Join(job[j].outdir, Tok("y.bam")),
                   Join(job[j].linkdir, Tok("y.bam")))
    \/ \E j \in 1..Len(job) :
          MakeMd5sum(j, Join(job[j].tempdir, Tok("combined_R1.fastq.gz")))

SpecBuild == Init /\ [][NextBuild]_vars

----------------------------------------------------------------------------
(* Properties.                                                             *)

ScriptOf(j) == Content(files, job[j].filename)
KindsOf(j) == {ScriptOf(j)[i].kind : i \in 1..Len(ScriptOf(j))}

\* The lines a step appends to the script of job j
Appended(j) ==
    LET old == Content(files, job[j].filename)
        new == Content(files', job[j].filename)
    IN  SubSeq(new, Len(old) + 1, Len(new))

FinalizeRank(kind) ==
    CASE kind = "copy_output" -> 1
      [] kind = "delete_temp" -> 2
      [] kind = "delete_tempdir" -> 3
      [] kind = "softlink" -> 4
      [] OTHER -> 0

\* C1: the lines one write_end appends to a job's script are finalize lines
\* only and come in the order copy of outputs, deletion of temporaries,
\* removal of the temp directory, softlinks; the first three at most once.
C1_FinalizeOrder ==
    [][\A j \in 1..Len(job) :
         (last'.op = "write_end" /\ last'.j = j) =>
           LET s == Appended(j)
           IN  /\ \A a \in 1..Len(s) : FinalizeRank(s[a].kind) > 0
               /\ \A a, b \in 1..Len(s) :
                    a < b =>
                      /\ FinalizeRank(s[a].kind) <= FinalizeRank(s[b].kind)
                      /\ FinalizeRank(s[a].kind) = FinalizeRank(s[b].kind)
                           => s[a].kind = "softlink"]_vars

C1_Witness ==
    \E j \in 1..Len(job) :
        /\ last.op = "write_end" /\ last.j = j
        /\ {"copy_output", "delete_temp", "delete_tempdir"} \subseteq KindsOf(j)

\* C2: when the job runs in its output directory, the deletion line that
\* write_end appends names no path that is registered both as a temporary
\* and as a published output.
C2_PublishedNotDeleted ==
    [][\A j \in 1..Len(job) :
         (last'.op = "write_end" /\ last'.j = j /\ SameDir(job[j])) =>
           \A i \in 1..Len(Appended(j)) :
              Appended(j)[i].kind = "delete_temp" =>
                \A k \in 3..Len(Appended(j)[i].argv) :
                   ~ /\ Appended(j)[i].argv[k]
                          \in SeqToSet(job[j].temp_files_to_delete)
                     /\ Appended(j)[i].argv[k]
                          \in SeqToSet(job[j].output_files_to_copy)]_vars

C2_Witness ==
    \E j \in 1..Len(job) :
        /\ last.op = "write_end" /\ last.j = j
        /\ SameDir(job[j])
        /\ {"copy_input", "delete_temp"} \subseteq KindsOf(j)
        /\ staged[j] \cap SeqToSet(job[j].output_files_to_copy) # {}

\* C3 as stated: a job that runs in its output directory has no input copy
\* command in its script.
C3_Original ==
    \A j \in 1..Len(job) :
        SameDir(job[j]) => "copy_input" \notin KindsOf(j)

\* C3 as amended: when the job runs in its output directory,
\* copy_input_files still writes the batched copy command, naming every
\* input registered for staging and the temp directory as destination.
C3_CopyStillEmitted ==
    \A j \in 1..Len(job) :
        (/\ last.op = "copy_input_files" /\ last.j = j
         /\ SameDir(job[j])
         /\ Len(job[j].input_files_to_copy) > 0) =>
          LET s == ScriptOf(j)
          IN  /\ Len(s) > 0
              /\ s[Len(s)].kind = "copy_input"
              /\ s[Len(s)].argv = <<W("rsync"), W("-avz")>>
                                     \o job[j].input_files_to_copy
                                     \o <<job[j].tempdir>>

C3_Witness ==
    \E j \in 1..Len(job) :
        /\ last.op = "copy_input_files" /\ last.j = j
        /\ SameDir(job[j])
        /\ Len(job[j].input_files_to_copy) > 0

CanonicalScript(jb) == Realpath(ScriptPath(jb.outdir, jb.jobname))

\* C4: a script that exists at the canonical path of a job when the job is
\* constructed keeps its contents through the construction and through every
\* later step; a redirected job writes to a different file.
C4_ExistingScriptKept ==
    [][/\ \A p \in DOMAIN files :
            (/\ files[p] = OldScript
             /\ \E j \in 1..Len(job') : p = CanonicalScript(job'[j])) =>
               (p \in DOMAIN files' /\ files'[p] = OldScript)
       /\ \A j \in 1..Len(job') :
            job'[j].delete_sh =>
               Realpath(job'[j].filename) # CanonicalScript(job'[j])]_vars

C4_Witness ==
    \E j \in 1..Len(job) :
        /\ job[j].delete_sh
        /\ job[j].ends > 0
        /\ "copy_input" \in KindsOf(j)
        /\ "delete_temp" \in KindsOf(j)
        /\ Content(files, ScriptPath(job[j].outdir, job[j].jobname))
             = OldScript

\* C5 as stated: after write_end the script of a redirected job is gone and
\* the script of any other job is still there.
C5_Original ==
    \A j \in 1..Len(job) :
        job[j].ends > 0 =>
          /\ job[j].delete_sh => ~Exists(files, job[j].filename)
          /\ ~job[j].delete_sh => Exists(files, job[j].filename)

\* C6: the submit command is qsub, then a -hold_jid clause exactly when
\* wait_for has at least one name, listing those names in their order, then
\* the script path.
C6_SubmitCommand ==
    last.op = "sge_submit_command" =>
      LET jb == job[last.j]
          n == IF jb.wait_for.none THEN 0 ELSE Len(jb.wait_for.names)
          r == last.ret
          holds == {i \in 1..Len(r) : r[i] = W("-hold_jid")}
      IN  /\ r[1] = W("qsub")
          /\ r[Len(r)] = jb.filename
          /\ n = 0 => (holds = {} /\ Len(r) = 2)
          /\ n > 0 => /\ holds = {2}
                      /\ Len(r) = 4
                      /\ Len(r[3]) = n
                      /\ \A i \in 1..n : r[3][i] = jb.wait_for.names[i]

C6_Witness ==
    /\ last.op = "sge_submit_command"
    /\ ~job[last.j].wait_for.none
    /\ Len(job[last.j].wait_for.names) = 2
    /\ job[last.j].wait_for.names[1] # job[last.j].wait_for.names[2]

\* The arguments of pipeline() with which no check of the constructor fails
ValidRun ==
    /\ args.webpath_file # None
    /\ args.linkdir # None
    /\ args.queue = None \/ args.queue \in {Tok("short"), Tok("long")}

\* C7 as stated: a run of pipeline() on valid arguments finalizes its jobs
\* and, when it has ended, has written the submission script, which holds
\* after its first line one submit line per constructed job in construction
\* order, each the submit command of that job.
C7_Original ==
    (pc = "raised" /\ ValidRun) =>
      LET s == Content(files, SubmitFn(args.outdir))
      IN  /\ Exists(files, SubmitFn(args.outdir))
          /\ Len(s) = Len(job) + 1
          /\ \A k \in 1..Len(job) : s[k + 1].argv = sge_submit_command(job[k])

\* C9: add_input_file registers fn and returns the temp path of fn exactly
\* when copy is True, or copy is None and copy_input is set; otherwise it
\* registers nothing and returns the real path of fn.  It never writes.
C9_AddInputFile ==
    [][last'.op = "add_input_file" =>
         LET j == last'.j
             fn == last'.args[1]
             copy == last'.args[2]
             eff == \/ copy = W("True")
                    \/ (copy = W("None") /\ job[j].copy_input)
         IN  /\ files' = files
             /\ eff =>
                  /\ job'[j].input_files_to_copy
                        = Append(job[j].input_files_to_copy, fn)
                  /\ last'.ret = <<Join(job[j].tempdir, Split(fn)[2])>>
             /\ ~eff =>
                  /\ job'[j].input_files_to_copy = job[j].input_files_to_copy
                  /\ last'.ret = <<Realpath(fn)>>]_vars

C9_Witness ==
    /\ last.op = "add_input_file"
    /\ last.args[2] = W("False")
    /\ job[last.j].copy_input
    /\ job[last.j].input_files_to_copy = <<>>
    /\ last.ret[1] # last.args[1]

\* C10 as stated: after copy_input_files every path add_input_file returned
\* with copying in effect is the destination argument of a copy command of
\* the script.
C10_Original ==
    \A j \in 1..Len(job) :
        (last.op = "copy_input_files" /\ last.j = j) =>
          \A p \in staged[j] :
             \E i \in 1..Len(ScriptOf(j)) :
                /\ ScriptOf(j)[i].kind = "copy_input"
                /\ ScriptOf(j)[i].argv[Len(ScriptOf(j)[i].argv)] = p

\* C10 as amended: after copy_input_files the last line of the script is the
\* copy command; its destination argument is the temp directory of the job
\* and is none of the paths add_input_file returned with copying in effect;
\* every such path is that directory joined with the base name of one of the
\* command's source arguments.
C10_StagedUnderDestination ==
    \A j \in 1..Len(job) :
        (last.op = "copy_input_files" /\ last.j = j /\ staged[j] # {}) =>
           LET s == ScriptOf(j)
               a == s[Len(s)].argv
           IN  /\ s[Len(s)].kind = "copy_input"
               /\ a[Len(a)] = job[j].tempdir
               /\ a[Len(a)] \notin staged[j]
               /\ \A p \in staged[j] :
                     \E i \in 3..(Len(a) - 1) :
                        Join(a[Len(a)], Split(a[i])[2]) = p

\* Two inputs are staged by a job that runs in its output directory, and one
\* of them already lies there: the path returned for it is its own path, a
\* source argument of the copy command.
C10_Witness ==
    \E j \in 1..Len(job) :
        /\ last.op = "copy_input_files" /\ last.j = j
        /\ Cardinality(staged[j]) = 2
        /\ SameDir(job[j])
        /\ LET a == ScriptOf(j)[Len(ScriptOf(j))].argv
           IN  \E i \in 3..(Len(a) - 1) : a[i] \in staged[j]

\* The words of line l after the command and its option, and the words
\* before its last one
Operands(l) == SubSeq(l.argv, 3, Len(l.argv))
Sources(l) == SubSeq(l.argv, 3, Len(l.argv) - 1)

\* C11: one call of copy_input_files appends exactly one copy line naming
\* every input registered so far, in order, with the temp directory as
\* destination, and no line when none is registered; it appends to the
\* temporary list, for each registered input, the path add_input_file
\* returned for it.  A later write_end names each such path on its deletion
\* line unless the path is also a published output.
C11_CopyInputFiles ==
    [][\A j \in 1..Len(job) :
         /\ (last'.op = "copy_input_files" /\ last'.j = j) =>
              LET reg == job[j].input_files_to_copy
                  old == job[j].temp_files_to_delete
                  new == job'[j].temp_files_to_delete
                  s == Appended(j)
              IN  /\ reg = <<>> => (s = <<>> /\ new = old)
                  /\ reg # <<>> =>
                       /\ Len(s) = 1
                       /\ s[1].kind = "copy_input"
                       /\ Sources(s[1]) = reg
                       /\ s[1].argv[Len(s[1].argv)] = job[j].tempdir
                  /\ Len(new) = Len(old) + Len(reg)
                  /\ SubSeq(new, 1, Len(old)) = old
                  /\ \A i \in 1..Len(reg) :
                        new[Len(old) + i]
                            = add_input_file(job[j], reg[i], "True")[2]
                  /\ staged[j] \subseteq SeqToSet(new)
         /\ (last'.op = "write_end" /\ last'.j = j) =>
              \A p \in staged[j] \cap SeqToSet(job[j].temp_files_to_delete) :
                 p \notin SeqToSet(job[j].output_files_to_copy) =>
                    \E i \in 1..Len(Appended(j)) :
                       /\ Appended(j)[i].kind = "delete_temp"
                       /\ p \in SeqToSet(Operands(Appended(j)[i]))]_vars

\* Two inputs are registered, one copy line names both and the deletion line
\* of write_end names the temp path of each.
C11_Witness ==
    \E j \in 1..Len(job) :
        /\ last.op = "write_end" /\ last.j = j
        /\ ~SameDir(job[j])
        /\ Len(job[j].input_files_to_copy) = 2
        /\ Cardinality(staged[j]) = 2
        /\ \E i, k \in 1..Len(ScriptOf(j)) :
              /\ i < k
              /\ ScriptOf(j)[i].kind = "copy_input"
              /\ Sources(ScriptOf(j)[i]) = job[j].input_files_to_copy
              /\ ScriptOf(j)[k].kind = "delete_temp"
              /\ staged[j] \subseteq SeqToSet(Operands(ScriptOf(j)[k]))

\* C12 as stated: a call of add_temp_file leaves the declared file, under
\* the name given or under its temp path, in the temporary list of the job.
C12_Original ==
    [][last'.op = "add_temp_file" =>
         \/ last'.args[1] \in SeqToSet(job'[last'.j].temp_files_to_delete)
         \/ last'.ret[1] \in SeqToSet(job'[last'.j].temp_files_to_delete)]_vars

\* The constructor arguments the claims call valid
PositiveInt(v) == v.isint /\ v.val > 0
ValidQueue(q) == q = None \/ q \in {Tok("short"), Tok("long")}

\* C13 as stated: called with a link directory, the constructor raises its
\* configuration error, the AssertionError of its checks, exactly when
\* threads or memory is not a positive integer or the queue is not an
\* accepted one.
C13_Original ==
    (last.op = "new" /\ last.init.linkdir # None) =>
      LET a == last.init
          bad == \/ ~PositiveInt(a.threads)
                 \/ ~PositiveInt(a.memory)
                 \/ ~ValidQueue(a.queue)
      IN  (last.exc = "AssertionError") <=> bad

\* C14 as stated: after a construction with positive integer threads and
\* memory and an accepted queue, whatever the link directory, the temp
\* directory and the earlier contents of the disk, a job exists, its output
\* directory and the sibling logs and sh directories exist, and its stdout
\* and stderr paths are <sibling>/logs/<jobname>.out and .err.
C14_Original ==
    (/\ last.op = "new"
     /\ PositiveInt(last.init.threads)
     /\ PositiveInt(last.init.memory)
     /\ ValidQueue(last.init.queue)) =>
      LET a == last.init
          parent == Split(a.outdir)[1]
          name == JobName(a.sample_name, a.job_suffix)
      IN  /\ last.exc = "none"
          /\ last.j \in 1..Len(job)
          /\ {Realpath(a.outdir), Realpath(Join(parent, Tok("logs"))),
              Realpath(Join(parent, Tok("sh")))} \subseteq dirs
          /\ job[last.j].out
               = Join(Join(parent, Tok("logs")), WithExt(name, ".out"))
          /\ job[last.j].err
               = Join(Join(parent, Tok("logs")), WithExt(name, ".err"))

\* The positions of the lines of a kind in the script of job j
LinesOf(j, kind) == {i \in 1..Len(ScriptOf(j)) : ScriptOf(j)[i].kind = kind}

\* C19: the script of every constructed job has exactly one memory line and
\* one thread-count line; the memory line carries the quotient memory /
\* threads, the thread-count line carries threads; for 4 threads and 8 Gb
\* the quotient is 2.
C19_HeaderDirectives ==
    \A j \in 1..Len(job) :
        LET s == ScriptOf(j)
            t == job[j].threads.val
            m == job[j].memory.val
        IN  /\ Cardinality(LinesOf(j, "h_vmem")) = 1
            /\ Cardinality(LinesOf(j, "pe_smp")) = 1
            /\ \A i \in LinesOf(j, "h_vmem") :
                  /\ Len(s[i].nums) = 2
                  /\ s[i].nums[2] > 0
                  /\ s[i].nums[1] * t = m * s[i].nums[2]
                  /\ (t = 4 /\ m = 8) => s[i].nums = <<2, 1>>
            /\ \A i \in LinesOf(j, "pe_smp") : s[i].nums = <<t>>
            /\ \A i \in LinesOf(j, "h_vmem"), k \in LinesOf(j, "pe_smp") :
                  i < k

C19_Witness ==
    \E j \in 1..Len(job) :
        /\ last.op = "new" /\ last.j = j
        /\ job[j].threads.val = 4
        /\ job[j].memory.val = 8
        /\ \E i \in LinesOf(j, "h_vmem") : ScriptOf(j)[i].nums = <<2, 1>>
        /\ \E i \in LinesOf(j, "pe_smp") : ScriptOf(j)[i].nums = <<4>>

\* The link add_softlink is to derive for a target when no link name is given
DerivedLink(jb, target) ==
    Join(jb.linkdir, make_softlink_name(target, jb.sample_name))

\* C15 as stated: add_softlink called without a link name returns the link
\* in linkdir named after the target, with the sample name and an underscore
\* in front when the base name does not hold the sample name, and registers
\* the pair of the target and that link.
C15_Original ==
    [][(last'.op = "add_softlink" /\ last'.args[2] = None) =>
         LET j == last'.j
             target == last'.args[1]
             link == DerivedLink(job[j], target)
         IN  /\ last'.exc = "none"
             /\ last'.ret = <<link>>
             /\ job'[j].softlinks
                  = Append(job[j].softlinks, <<target, link>>)]_vars

\* C16 as stated: add_softlink called with a link name returns that name
\* and registers the pair of the target and that name.
C16_Original ==
    [][(last'.op = "add_softlink" /\ last'.args[2] # None) =>
         LET j == last'.j
             target == last'.args[1]
             link_name == last'.args[2]
         IN  /\ last'.exc = "none"
             /\ last'.ret = <<link_name>>
             /\ job'[j].softlinks
                  = Append(job[j].softlinks, <<target, link_name>>)]_vars

RECURSIVE OfKind(_, _)
\* The lines of s that have the given kind, in their order
OfKind(s, kind) ==
    IF s = <<>> THEN <<>>
    ELSE IF Head(s).kind = kind THEN <<Head(s)>> \o OfKind(Tail(s), kind)
         ELSE OfKind(Tail(s), kind)

\* C17 as stated: add_softlink leaves the script as it is; write_end appends
\* one link line per pair of the softlink list, in the order of the list,
\* each "ln -s target link", after any line that copies outputs.
C17_Original ==
    [][\A j \in 1..Len(job) :
         /\ (last'.op = "add_softlink" /\ last'.j = j) => files' = files
         /\ (last'.op = "write_end" /\ last'.j = j) =>
              LET s == Appended(j)
                  links == OfKind(s, "softlink")
              IN  /\ Len(links) = Len(job[j].softlinks)
                  /\ \A i \in 1..Len(links) :
                        links[i].argv = <<W("ln"), W("-s")>>
                                           \o job[j].softlinks[i]
                  /\ \A a, b \in 1..Len(s) :
                        (s[a].kind = "softlink" /\ s[b].kind = "copy_output")
                           => b < a]_vars

\* The job names a job is to wait for
WaitNames(jb) == IF jb.wait_for.none THEN {} ELSE SeqToSet(jb.wait_for.names)

\* A line that its command builder put in the background
Background(l) == l.argv[Len(l.argv)] = W("&")

\* The keys of the words that name a file a picard tool writes, and the
\* words that redirect an output stream
OutKeys == {Tok("O="), Tok("CHART_OUTPUT="), Tok("SUMMARY_OUTPUT="),
            Tok("HISTOGRAM_FILE=")}
InKeys == {Tok("I="), Tok("REF_FLAT="), Tok("RIBOSOMAL_INTERVALS="),
           Tok("-Djava.io.tmpdir=")}
Redirects == {W(">"), W("2>")}

\* The path a word names: what follows the key of a KEY=path word
Operand(w) ==
    IF Len(w) > 1 /\ w[1] \in OutKeys \cup InKeys THEN Tail(w) ELSE w

\* The files line l writes and the paths it reads
OutputOf(l) ==
    {l.argv[i + 1] :
        i \in {n \in 1..(Len(l.argv) - 1) : l.argv[n] \in Redirects}}
    \cup {Tail(l.argv[i]) :
            i \in {n \in 1..Len(l.argv) :
                     Len(l.argv[n]) > 1 /\ l.argv[n][1] \in OutKeys}}
ReadsOf(l) == {Operand(l.argv[i]) : i \in 1..Len(l.argv)} \ OutputOf(l)

\* C18 as stated: in every script, between a line run in the background and
\* a later line that reads the file that line writes, there is a wait line.
C18_Original ==
    \A j \in 1..Len(job) :
        LET s == ScriptOf(j)
        IN  \A i, k \in 1..Len(s) :
               (/\ i < k
                /\ Background(s[i])
                /\ OutputOf(s[i]) \cap ReadsOf(s[k]) # {}) =>
                  \E w \in (i + 1)..(k - 1) : s[w].kind = "wait"

\* C27 as stated: when the job runs in its output directory and its
\* temporary list holds nothing but what copy_input_files put there, the
\* deletion line write_end appends names no path that is the original
\* location of a registered input.
C27_Original ==
    [][\A j \in 1..Len(job) :
         (/\ last'.op = "write_end" /\ last'.j = j
          /\ SameDir(job[j])
          /\ "copy_input" \in KindsOf(j)
          /\ job[j].temp_files_to_delete
               = MapTemp(job[j].tempdir, job[j].input_files_to_copy)) =>
           \A i \in 1..Len(Appended(j)) :
              Appended(j)[i].kind = "delete_temp" =>
                \A p \in SeqToSet(Operands(Appended(j)[i])) :
                   \A fn \in SeqToSet(job[j].input_files_to_copy) :
                      Realpath(p) # Realpath(fn)]_vars

\* C28 as stated: every deletion line write_end appends names at least one
\* path.
C28_Original ==
    [][\A j \in 1..Len(job) :
         (last'.op = "write_end" /\ last'.j = j) =>
           \A i \in 1..Len(Appended(j)) :
              Appended(j)[i].kind = "delete_temp" =>
                 Len(Operands(Appended(j)[i])) > 0]_vars

\* The lines of s that remove recursively: "rm -r ..."
IsRmR(l) == Len(l.argv) >= 2 /\ l.argv[1] = W("rm") /\ l.argv[2] = W("-r")

\* C29: write_end appends the line removing the temp directory exactly when
\* the temp directory is not the output directory, and the line copying the
\* outputs exactly when in addition an output is registered; no line any
\* call appends to a script removes the output directory recursively.
C29_TempdirRemoval ==
    [][\A j \in 1..Len(job) :
         /\ (last'.op = "write_end" /\ last'.j = j) =>
              LET s == Appended(j)
                  distinct == Realpath(job[j].tempdir) # Realpath(job[j].outdir)
              IN  /\ (\E i \in 1..Len(s) : s[i].kind = "delete_tempdir")
                        <=> distinct
                  /\ \A i \in 1..Len(s) :
                        s[i].kind = "delete_tempdir" =>
                           s[i].argv = <<W("rm"), W("-r"), job[j].tempdir>>
                  /\ (\E i \in 1..Len(s) : s[i].kind = "copy_output")
                        <=> (distinct /\ Len(job[j].output_files_to_copy) > 0)
         /\ \A i \in 1..Len(Appended(j)) :
               LET l == Appended(j)[i]
               IN  IsRmR(l) =>
                     \A p \in SeqToSet(Operands(l)) :
                        Realpath(p) # Realpath(job[j].outdir)]_vars

C29_Witness ==
    \E j \in 1..Len(job) :
        /\ last.op = "write_end" /\ last.j = j
        /\ SameDir(job[j])
        /\ Len(job[j].output_files_to_copy) > 0
        /\ "delete_temp" \in KindsOf(j)
        /\ "delete_tempdir" \notin KindsOf(j)
        /\ "copy_output" \notin KindsOf(j)

\* C26 as stated: the script path sge_submit_command names is
\* sibling(outdir)/sh/<jobname>.sh, the file the script of the job was written
\* to, and that file exists once write_end has run.
C26_Original ==
    \A j \in 1..Len(job) :
       (last.op = "sge_submit_command" /\ last.j = j) =>
          LET named == last.ret[Len(last.ret)]
          IN  /\ named = ScriptPath(job[j].outdir, job[j].jobname)
              /\ named = job[j].filename
              /\ job[j].ends > 0 => Exists(files, named)

\* C21 as stated: a second run of pipeline() on valid arguments, started
\* where the first run with the same arguments left the file system, has
\* when it has ended written a submission script, the same as the first
\* run's.
C21_Original ==
    (runs = 2 /\ pc = "raised" /\ ValidRun) =>
       Exists(files, SubmitFn(args.outdir))

\* The command builders of JobScript
BuilderOps ==
    {"picard_collect_rna_seq_metrics", "picard_collect_multiple_metrics",
     "picard_index", "picard_merge", "samtools_index",
     "picard_mark_duplicates", "picard_gc_bias_metrics",
     "picard_bam_index_stats", "picard_insert_size_metrics",
     "picard_query_sort", "picard_coord_sort", "cutadapt_trim",
     "bedgraph_to_bigwig", "flagstat", "combine_fastqs", "fastqc",
     "wasp_allele_swap", "wasp_alignment_compare", "count_allele_coverage",
     "mbased", "softlink", "make_md5sum"}

\* C22: a command builder called on job j changes no file but the script of
\* job j, which it only appends to, and leaves the record of every other
\* job, its file-role lists included, as it was.
C22_OwnScriptOnly ==
    [][\A j \in 1..Len(job) :
         (last'.op \in BuilderOps /\ last'.j = j) =>
            LET own == Realpath(job[j].filename)
                old == Content(files, job[j].filename)
                new == Content(files', job[j].filename)
            IN  /\ DOMAIN files' = DOMAIN files
                /\ \A p \in DOMAIN files \ {own} : files'[p] = files[p]
                /\ Len(new) >= Len(old)
                /\ SubSeq(new, 1, Len(old)) = old
                /\ \A k \in 1..Len(job) : k # j => job'[k] = job[k]]_vars

\* A builder called on the second of two jobs has returned; its line is the
\* last of the script of that job and the script of the first job holds no
\* builder line.
C22_Witness ==
    /\ Len(job) = 2
    /\ last.op \in BuilderKinds
    /\ last.j = 2
    /\ last.exc = "none"
    /\ ScriptOf(2)[Len(ScriptOf(2))].kind = last.op
    /\ BuilderLines(files, job[1].filename) = 0

\* Job k of a run holds on job i: directly, or through the jobs it waits for
RECURSIVE HoldsOn(_, _)
HoldsOn(k, i) ==
    \/ job[i].jobname \in WaitNames(job[k])
    \/ \E m \in 1..(k - 1) :
          job[m].jobname \in WaitNames(job[k]) /\ HoldsOn(m, i)

Concurrent(i, k) == i # k /\ ~HoldsOn(i, k) /\ ~HoldsOn(k, i)

\* C23 as stated: two jobs of one program neither of which holds on the
\* other have different temp directories, whether or not a tempdir root was
\* given.
C23_Original ==
    \A i \in 1..Len(job), k \in 1..Len(job) :
       Concurrent(i, k) => job[i].tempdir # job[k].tempdir

\* C23: a job constructed with a tempdir root gets the directory
\* <root>/<jobname>, which no job constructed before it has; a job constructed
\* without a root gets its output directory.
C23_TempdirPerJob ==
    [][(last'.op = "new" /\ last'.exc = "none" /\ last' # last) =>
         LET k == last'.j
             a == last'.init
         IN  /\ a.tempdir # None =>
                   /\ job'[k].tempdir
                        = Realpath(Join(a.tempdir, job'[k].jobname))
                   /\ \A i \in 1..(k - 1) :
                         job'[i].tempdir # job'[k].tempdir
             /\ a.tempdir = None => job'[k].tempdir = job'[k].outdir]_vars

C23_Witness ==
    /\ Len(job) = 2
    /\ Concurrent(1, 2)
    /\ job[1].outdir = job[2].outdir
    /\ job[1].tempdir = Realpath(Join(ScratchRoot, job[1].jobname))
    /\ job[2].tempdir = Realpath(Join(ScratchRoot, job[2].jobname))
    /\ job[1].tempdir # job[2].tempdir

\* Path p is directory d or lies below it
Under(p, d) ==
    /\ Len(Realpath(d)) <= Len(Realpath(p))
    /\ SubSeq(Realpath(p), 1, Len(Realpath(d))) = Realpath(d)

\* C25 as stated: no target in the softlink list of a job lies under a
\* directory that a line write_end appends for that job removes with rm -r.
C25_Original ==
    [][\A j \in 1..Len(job) :
         (last'.op = "write_end" /\ last'.j = j) =>
            \A i \in 1..Len(Appended(j)) :
               Appended(j)[i].kind = "delete_tempdir" =>
                  \A n \in 1..Len(job[j].softlinks) :
                     ~Under(job[j].softlinks[n][1], job[j].tempdir)]_vars

====
